---- MODULE Spec2Model ----
(***************************************************************************)
(* AgroStock (pk.py): the login / session / role-gated dashboard flow of   *)
(* the Streamlit script.  One step of the model is one user interaction:   *)
(* the script run of main() that the interaction triggers, together with   *)
(* the run that st.rerun() starts from inside it.                          *)
(***************************************************************************)
EXTENDS Integers, Sequences, FiniteSets, TLC

\* number of past login attempts kept in the observation log
MaxLog == 2

\* Python's None
None == "None"

\* what the user can type into the two text inputs ("" = left empty)
Usernames == {"", "admin", "farmer", "vet", "nobody"}
Passwords == {"", "admin123", "farmer123", "vet123", "wrongpass"}

\* the keys main() and login_page() keep in st.session_state
SessionKeys == <<"logged_in", "username", "role", "farm_name">>

-----------------------------------------------------------------------------
(* AgroStockAuth *)

\* hashlib.sha256(password.encode()).hexdigest(), tabulated on Passwords
hash_password(password) ==
    CASE password = ""          -> "e3b0c44298fc1c149afbf4c8996fb92427ae41e4649b934ca495991b7852b855"
      [] password = "admin123"  -> "240be518fabd2724ddb6f04eeb1da5967448d7e831c08c8fa822809f74c720a9"
      [] password = "farmer123" -> "26c07fc7be1668f8ea7e3801d4ffdbf33de487a593a69028936ec49f2c89f6ab"
      [] password = "vet123"    -> "95668df3d5465c0efe2bddca0ae448bb213dfdcd7ed446039003e693c22284b1"
      [] password = "wrongpass" -> "17b2ba89601ba249fab3e1ce328756ee97fefdaaa4459db5c010953302fa4d28"

\* self.users as __init__ builds it
AgroStockAuth ==
    [admin  |-> [password_hash |-> hash_password("admin123"),
                 role          |-> "admin",
                 email         |-> "admin@agrostock.com",
                 farm_name     |-> "AgroStock HQ"],
     farmer |-> [password_hash |-> hash_password("farmer123"),
                 role          |-> "farmer",
                 email         |-> "farmer@greenfarm.com",
                 farm_name     |-> "Green Valley Farm"],
     vet    |-> [password_hash |-> hash_password("vet123"),
                 role          |-> "veterinarian",
                 email         |-> "vet@animalcare.com",
                 farm_name     |-> "Animal Care Clinic"]]

\* mutant: the failure tuple echoes the username when the name is registered
login_user_leak(users, username, password) ==
    IF username \in DOMAIN users
       /\ users[username].password_hash = hash_password(password)
    THEN <<TRUE, username, users[username].role, users[username].farm_name>>
    ELSE IF username \in DOMAIN users
         THEN <<FALSE, username, None, None>>
         ELSE <<FALSE, None, None, None>>

\* mutant: the digest comparison is dropped
login_user_nocheck(users, username, password) ==
    IF username \in DOMAIN users
    THEN <<TRUE, username, users[username].role, users[username].farm_name>>
    ELSE <<FALSE, None, None, None>>

\* mutant: the role is read from the wrong registry entry
login_user_wrongrole(users, username, password) ==
    IF username \in DOMAIN users
       /\ users[username].password_hash = hash_password(password)
    THEN <<TRUE, username, users["farmer"].role, users[username].farm_name>>
    ELSE <<FALSE, None, None, None>>

login_user(users, username, password) ==
    IF username \in DOMAIN users
       /\ users[username].password_hash = hash_password(password)
    THEN <<TRUE, username, users[username].role, users[username].farm_name>>
    ELSE <<FALSE, None, None, None>>

-----------------------------------------------------------------------------
(* st.session_state as a dictionary *)

EmptyState == [k \in {} |-> None]

SetItem(ss, k, v) == [x \in DOMAIN ss \cup {k} |-> IF x = k THEN v ELSE ss[x]]

DelItem(ss, k) == [x \in DOMAIN ss \ {k} |-> ss[x]]

\* mutant: the flag is not consulted
get_logged_in_never(ss) == FALSE

\* st.session_state.get('logged_in', False)
get_logged_in(ss) == IF "logged_in" \in DOMAIN ss THEN ss["logged_in"] ELSE FALSE

-----------------------------------------------------------------------------
(* show_dashboard *)

\* the content written into tabs[0] .. tabs[5]
SectionAt == <<"overview", "health", "vaccination", "feed", "financial", "admin-panel">>

\* mutant: the veterinarian is given the farmer's tab list
role_tabs_vetfin(user_role) ==
    IF user_role = "admin"
    THEN <<"Overview", "Cattle Health", "Vaccination", "Feed", "Financial", "Admin">>
    ELSE <<"Overview", "Cattle Health", "Vaccination", "Feed", "Financial">>

\* mutant: the veterinarian's tab list loses its last entry
role_tabs_vetshort(user_role) ==
    IF user_role = "admin"
    THEN <<"Overview", "Cattle Health", "Vaccination", "Feed", "Financial", "Admin">>
    ELSE IF user_role = "veterinarian"
    THEN <<"Overview", "Cattle Health", "Vaccination">>
    ELSE <<"Overview", "Cattle Health", "Vaccination", "Feed", "Financial">>

\* mutant: the farmer is given the admin's tab list
role_tabs_farmeradmin(user_role) ==
    IF user_role = "veterinarian"
    THEN <<"Overview", "Cattle Health", "Vaccination", "Feed">>
    ELSE <<"Overview", "Cattle Health", "Vaccination", "Feed", "Financial", "Admin">>

\* "Role-based tabs": the list handed to st.tabs
role_tabs(user_role) ==
    IF user_role = "admin"
    THEN <<"Overview", "Cattle Health", "Vaccination", "Feed", "Financial", "Admin">>
    ELSE IF user_role = "veterinarian"
    THEN <<"Overview", "Cattle Health", "Vaccination", "Feed">>
    ELSE <<"Overview", "Cattle Health", "Vaccination", "Feed", "Financial">>

\* the indices i of the "with tabs[i]:" blocks the function enters, in order
tab_blocks(user_role, tabs) ==
    <<0, 1, 2, 3>>
    \o (IF user_role \in {"farmer", "admin"} /\ Len(tabs) > 4 THEN <<4>> ELSE <<>>)
    \o (IF user_role = "admin" /\ Len(tabs) > 5 THEN <<5>> ELSE <<>>)

\* tabs      : the tab headers st.tabs shows
\* rendered  : the indices whose block was entered before any IndexError
\* raised    : tabs[i] was evaluated with i >= len(tabs)
show_dashboard(user_role) ==
    LET tabs   == role_tabs(user_role)
        blocks == tab_blocks(user_role, tabs)
        bad    == {j \in 1..Len(blocks) : blocks[j] >= Len(tabs)}
    IN  [tabs     |-> tabs,
         rendered |-> {blocks[j] : j \in {x \in 1..Len(blocks) :
                                            \A y \in bad : x < y}},
         raised   |-> bad # {}]

\* load_data: every file read, or five None
load_data(files_ok) ==
    IF files_ok THEN <<"df", "df", "df", "df", "df">>
    ELSE <<None, None, None, None, None>>

-----------------------------------------------------------------------------
(* login_page *)

InvalidMsg   == "Invalid username or password"
EnterBothMsg == "Please enter both username and password"
DemoMsg      == "Demo Accounts"
DataErrorMsg == "Could not load data files"
NoMsg        == "none"
NotCalled    == <<>>

\* mutant: the farm_name assignment is missing
login_store_nofarm(ss, ret) ==
    SetItem(SetItem(SetItem(ss, "logged_in", TRUE),
            "username", ret[2]), "role", ret[3])

\* the four assignments after a successful login_user
login_store(ss, ret) ==
    SetItem(SetItem(SetItem(SetItem(ss, "logged_in", TRUE),
            "username", ret[2]), "role", ret[3]), "farm_name", ret[4])

\* mutant: the typed username is remembered before the result is inspected
login_page_eager(users, ss, button, username, password) ==
    IF button = "login"
    THEN IF username # "" /\ password # ""
         THEN LET ret == login_user(users, username, password)
              IN  IF ret[1]
                  THEN [ss |-> login_store(ss, ret), msg |-> NoMsg, rerun |-> TRUE,
                        called |-> TRUE, ret |-> ret]
                  ELSE [ss |-> SetItem(ss, "username", username), msg |-> InvalidMsg,
                        rerun |-> FALSE, called |-> TRUE, ret |-> ret]
         ELSE [ss |-> ss, msg |-> EnterBothMsg, rerun |-> FALSE,
               called |-> FALSE, ret |-> NotCalled]
    ELSE IF button = "demo"
    THEN [ss |-> ss, msg |-> DemoMsg, rerun |-> FALSE, called |-> FALSE, ret |-> NotCalled]
    ELSE [ss |-> ss, msg |-> NoMsg, rerun |-> FALSE, called |-> FALSE, ret |-> NotCalled]

\* button: which st.button returned True in this run ("login", "demo", "none")
\* called: login_user was evaluated; ret: what it returned
login_page(users, ss, button, username, password) ==
    IF button = "login"
    THEN IF username # "" /\ password # ""
         THEN LET ret == login_user(users, username, password)
              IN  IF ret[1]
                  THEN [ss |-> login_store(ss, ret), msg |-> NoMsg, rerun |-> TRUE,
                        called |-> TRUE, ret |-> ret]
                  ELSE [ss |-> ss, msg |-> InvalidMsg, rerun |-> FALSE,
                        called |-> TRUE, ret |-> ret]
         ELSE [ss |-> ss, msg |-> EnterBothMsg, rerun |-> FALSE,
               called |-> FALSE, ret |-> NotCalled]
    ELSE IF button = "demo"
    THEN [ss |-> ss, msg |-> DemoMsg, rerun |-> FALSE, called |-> FALSE, ret |-> NotCalled]
    ELSE [ss |-> ss, msg |-> NoMsg, rerun |-> FALSE, called |-> FALSE, ret |-> NotCalled]

-----------------------------------------------------------------------------
(* main *)

\* mutant: the membership test before del is dropped (KeyError on a missing key)
del_if_present_unguarded(st, key) ==
    IF st.raised THEN st
    ELSE IF key \in DOMAIN st.ss
         THEN [st EXCEPT !.ss = DelItem(st.ss, key)]
         ELSE [st EXCEPT !.raised = TRUE]

\* one iteration of the logout loop: "if key in st.session_state: del ..."
del_if_present(st, key) ==
    IF st.raised THEN st
    ELSE IF key \in DOMAIN st.ss
         THEN [st EXCEPT !.ss = DelItem(st.ss, key)]
         ELSE st

\* mutant: farm_name is missing from the list of keys
logout_clear_partial(ss) ==
    del_if_present(del_if_present(del_if_present(
        [ss |-> ss, raised |-> FALSE],
        SessionKeys[1]), SessionKeys[2]), SessionKeys[3])

\* mutant: username is missing from the list of keys
logout_clear_keepuser(ss) ==
    del_if_present(del_if_present(del_if_present(
        [ss |-> ss, raised |-> FALSE],
        SessionKeys[1]), SessionKeys[3]), SessionKeys[4])

\* the logout loop over ['logged_in', 'username', 'role', 'farm_name']
logout_clear(ss) ==
    del_if_present(del_if_present(del_if_present(del_if_present(
        [ss |-> ss, raised |-> FALSE],
        SessionKeys[1]), SessionKeys[2]), SessionKeys[3]), SessionKeys[4])

\* what a run that ends in login_page leaves on the screen
LoginView(msg) ==
    [page |-> "login", msg |-> msg, tabs |-> <<>>, rendered |-> {},
     widgets |-> {"login_button", "demo_button"}]

\* what a run that gets past the login check leaves on the screen:
\* load_data, then show_dashboard or the error, then the logout button
DashView(ss, files_ok) ==
    IF load_data(files_ok)[2] # None
    THEN IF {"role", "farm_name"} \subseteq DOMAIN ss
         THEN LET d == show_dashboard(ss["role"])
              IN  [page |-> "dashboard", msg |-> NoMsg, tabs |-> d.tabs,
                   rendered |-> d.rendered,
                   widgets |-> IF d.raised THEN {} ELSE {"logout_button"}]
         ELSE [page |-> "dashboard", msg |-> NoMsg, tabs |-> <<>>,
               rendered |-> {}, widgets |-> {}]
    ELSE [page |-> "dashboard", msg |-> DataErrorMsg, tabs |-> <<>>,
          rendered |-> {}, widgets |-> {"logout_button"}]

\* mutant: the return after login_page is missing, the run goes on to
\* load_data, the dashboard or the error, and the logout button
Render_noreturn(ss, files_ok) ==
    IF ~ get_logged_in(ss)
    THEN [LoginView(NoMsg) EXCEPT !.widgets = @ \cup DashView(ss, files_ok).widgets]
    ELSE DashView(ss, files_ok)

\* main() with no button pressed: the run st.rerun() starts
Render(ss, files_ok) ==
    IF ~ get_logged_in(ss) THEN LoginView(NoMsg) ELSE DashView(ss, files_ok)

\* main() for one interaction.  files_ok: load_data's outcome in this run,
\* files_ok2: its outcome in the run started by st.rerun()
\* prior: the run that st.rerun() cut short, if any: the state it started
\* from and what it had drawn by then
main(users, ss, button, username, password, files_ok, files_ok2) ==
    IF ~ get_logged_in(ss)
    THEN LET lp == login_page(users, ss, button, username, password)
         IN  [ss     |-> lp.ss,
              view   |-> IF lp.rerun THEN Render(lp.ss, files_ok2)
                         ELSE LoginView(lp.msg),
              prior  |-> IF lp.rerun
                         THEN <<[ss   |-> ss,
                                 view |-> [LoginView(NoMsg) EXCEPT
                                             !.widgets = {"login_button"}]]>>
                         ELSE <<>>,
              form   |-> TRUE,
              called |-> lp.called, ret |-> lp.ret, msg |-> lp.msg]
    ELSE LET v == DashView(ss, files_ok)
             c == logout_clear(ss)
         IN  IF button = "logout" /\ "logout_button" \in v.widgets
             THEN [ss     |-> c.ss,
                   view   |-> IF c.raised
                              THEN [v EXCEPT !.widgets = {}]
                              ELSE Render(c.ss, files_ok2),
                   prior  |-> IF c.raised THEN <<>>
                              ELSE <<[ss |-> ss, view |-> v]>>,
                   form   |-> FALSE,
                   called |-> FALSE, ret |-> NotCalled, msg |-> NoMsg]
             ELSE [ss     |-> ss, view |-> v, prior |-> <<>>, form |-> FALSE,
                   called |-> FALSE, ret |-> NotCalled, msg |-> v.msg]

-----------------------------------------------------------------------------
(* the state machine *)

VARIABLES
    session_state,  \* the four session keys of st.session_state
    auth,           \* st.session_state.auth.users
    view,           \* what the last script run left on the screen
    lastEvent,      \* the interaction that caused the last step
    log,            \* the last MaxLog login-button presses and their outcomes
    prior           \* the run of the last step that st.rerun() cut short

vars == <<session_state, auth, view, lastEvent, log, prior>>

Append2(l, e) == IF Len(l) < MaxLog THEN Append(l, e) ELSE Append(Tail(l), e)

\* the first script run of a browser session has happened
Init ==
    /\ session_state = EmptyState
    /\ auth = AgroStockAuth
    /\ view = Render(EmptyState, TRUE)
    /\ lastEvent = "start"
    /\ log = <<>>
    /\ prior = <<>>

\* any interaction that re-executes the script without pressing a button
Rerun ==
    \E ok \in BOOLEAN :
        LET r == main(auth, session_state, "none", "", "", ok, ok)
        IN  /\ session_state' = r.ss
            /\ view' = r.view
            /\ prior' = r.prior
            /\ lastEvent' = "rerun"
            /\ UNCHANGED <<auth, log>>

LoginClick ==
    /\ "login_button" \in view.widgets
    /\ \E username \in Usernames, password \in Passwords, ok \in BOOLEAN :
        LET r == main(auth, session_state, "login", username, password, ok, ok)
        IN  /\ session_state' = r.ss
            /\ view' = r.view
            /\ prior' = r.prior
            /\ lastEvent' = "login"
            /\ log' = Append2(log, [username |-> username, password |-> password,
                                    form |-> r.form, called |-> r.called,
                                    ret |-> r.ret, msg |-> r.msg,
                                    before |-> session_state, after |-> r.ss])
            /\ UNCHANGED auth

DemoClick ==
    /\ "demo_button" \in view.widgets
    /\ \E ok \in BOOLEAN :
        LET r == main(auth, session_state, "demo", "", "", ok, ok)
        IN  /\ session_state' = r.ss
            /\ view' = r.view
            /\ prior' = r.prior
            /\ lastEvent' = "demo"
            /\ UNCHANGED <<auth, log>>

LogoutClick ==
    /\ "logout_button" \in view.widgets
    /\ \E ok \in BOOLEAN, ok2 \in BOOLEAN :
        LET r == main(auth, session_state, "logout", "", "", ok, ok2)
        IN  /\ session_state' = r.ss
            /\ view' = r.view
            /\ prior' = r.prior
            /\ lastEvent' = "logout"
            /\ UNCHANGED <<auth, log>>

Next == Rerun \/ LoginClick \/ DemoClick \/ LogoutClick

Spec == Init /\ [][Next]_vars

-----------------------------------------------------------------------------
(* properties *)

\* the state is LoggedIn
LoggedIn ==
    "logged_in" \in DOMAIN session_state /\ session_state["logged_in"] = TRUE

\* none of logged_in, username, role, farm_name is set
NoSessionFields(ss) ==
    DOMAIN ss \cap {"logged_in", "username", "role", "farm_name"} = {}

\* the principals as the documentation lists them: username, password, role
Principals ==
    {<<"admin", "admin123", "admin">>,
     <<"farmer", "farmer123", "farmer">>,
     <<"vet", "vet123", "veterinarian">>}

Registered == {P[1] : P \in Principals}

\* the section contents of a screen, by name
Sections(v) == {SectionAt[i + 1] : i \in v.rendered}

\* the tab headers of a screen
Labels(v) == {v.tabs[i] : i \in DOMAIN v.tabs}

FailureTuple == <<FALSE, None, None, None>>

\* C1: for every principal of the registry, a login with the principal's
\* username and correct password evaluates login_user, which succeeds, and
\* the session then carries exactly that username and that principal's role.
C1_CorrectLoginSucceeds ==
    /\ DOMAIN auth = Registered
    /\ \A i \in DOMAIN log : \A P \in Principals :
        (log[i].username = P[1] /\ log[i].password = P[2]) =>
            /\ log[i].called
            /\ log[i].ret[1] = TRUE
            /\ log[i].ret[2] = P[1]
            /\ log[i].ret[3] = P[3]
            /\ {"logged_in", "username", "role"} \subseteq DOMAIN log[i].after
            /\ log[i].after["logged_in"] = TRUE
            /\ log[i].after["username"] = P[1]
            /\ log[i].after["role"] = P[3]

C1_Witness ==
    /\ lastEvent = "login"
    /\ Len(log) = MaxLog
    /\ log[Len(log)].username = "vet"
    /\ log[Len(log)].password = "vet123"
    /\ LoggedIn
    /\ session_state["role"] = "veterinarian"
    /\ log[1].username = "admin" /\ log[1].password = "admin123"

\* C2 as stated: for every principal and every password other than the
\* correct one, the empty password included, login_user is evaluated and the
\* attempt ends in the one invalid-credentials outcome, with no session.
C2_WrongPasswordAlwaysEvaluated ==
    \A i \in DOMAIN log : \A P \in Principals :
        (log[i].username = P[1] /\ log[i].password # P[2]) =>
            /\ log[i].called
            /\ log[i].ret = FailureTuple
            /\ log[i].msg = InvalidMsg
            /\ NoSessionFields(log[i].after)

\* C2 amended: for every principal and every non-empty password other than
\* the correct one, login_user is evaluated and the attempt ends in the one
\* invalid-credentials outcome with no session; with the empty password
\* login_user is not evaluated, the "enter both" warning is shown instead,
\* and there is no session either.
C2_WrongPasswordFails ==
    \A i \in DOMAIN log : \A P \in Principals :
        (log[i].username = P[1] /\ log[i].password # P[2]) =>
            /\ NoSessionFields(log[i].after)
            /\ log[i].password # "" =>
                /\ log[i].called
                /\ log[i].ret = FailureTuple
                /\ log[i].msg = InvalidMsg
            /\ log[i].password = "" =>
                /\ ~ log[i].called
                /\ log[i].msg = EnterBothMsg

C2_Witness ==
    /\ lastEvent = "login"
    /\ Len(log) = MaxLog
    /\ log[1].username = "admin" /\ log[1].password = "wrongpass"
    /\ log[1].msg = InvalidMsg
    /\ log[2].username = "farmer" /\ log[2].password = ""
    /\ log[2].msg = EnterBothMsg
    /\ ~ LoggedIn

\* C3: a login with a (non-empty) username that is not in the registry fails
\* for every password, and what the caller observes (whether and what
\* login_user returned, the message shown, the session afterwards) equals
\* what is observed for a registered username with the same, wrong, password.
C3_UnknownUserIndistinguishable ==
    /\ \A i \in DOMAIN log :
        log[i].username \notin DOMAIN auth =>
            /\ NoSessionFields(log[i].after)
            /\ log[i].called => log[i].ret = FailureTuple
    /\ \A i \in DOMAIN log : \A j \in DOMAIN log : \A P \in Principals :
        ( /\ log[i].username \notin DOMAIN auth
          /\ log[i].username # ""
          /\ log[j].username = P[1]
          /\ log[j].password # P[2]
          /\ log[i].password = log[j].password ) =>
            /\ log[i].called = log[j].called
            /\ log[i].ret = log[j].ret
            /\ log[i].msg = log[j].msg
            /\ log[i].after = log[j].after

C3_Witness ==
    /\ lastEvent = "login"
    /\ Len(log) = MaxLog
    /\ log[1].username = "nobody" /\ log[1].password = "wrongpass"
    /\ log[2].username = "admin" /\ log[2].password = "wrongpass"
    /\ log[1].called /\ log[2].called
    /\ log[1].msg = InvalidMsg

\* C4: a login attempt that fails (wrong password or unknown user) changes
\* nothing: the session keys are as before, that is none is set, and the
\* registry is the one built at start.
C4_FailedLoginChangesNothing ==
    [][ (lastEvent' = "login" /\ ~ LoggedIn') =>
            /\ session_state' = session_state
            /\ NoSessionFields(session_state')
            /\ auth' = auth
            /\ auth' = AgroStockAuth ]_vars

C4_Witness ==
    /\ lastEvent = "login"
    /\ Len(log) = MaxLog
    /\ log[1].username = "vet" /\ log[1].password = "admin123" /\ log[1].called
    /\ log[2].username = "nobody" /\ log[2].password = "vet123" /\ log[2].called
    /\ session_state = EmptyState
    /\ auth = AgroStockAuth

\* C5: the login form is offered only while LoggedOut, login_user is only
\* evaluated from LoggedOut, and no step leads from LoggedIn to LoggedIn
\* with a different session.
C5_NoReloginWhileLoggedIn ==
    /\ [](LoggedIn => "login_button" \notin view.widgets)
    /\ [][ /\ (LoggedIn /\ LoggedIn') => session_state' = session_state
           /\ (lastEvent' = "login" /\ log'[Len(log')].called) => ~ LoggedIn
       ]_vars

C5_Witness ==
    /\ LoggedIn
    /\ lastEvent = "rerun"
    /\ view.page = "dashboard"
    /\ view.widgets = {"logout_button"}
    /\ session_state["username"] = "farmer"

\* C6: in every LoggedIn state, for every role and whether or not the data
\* files loaded, the logout button is on the screen, and pressing it leads
\* to LoggedOut with logged_in, username, role and farm_name removed.
C6_LogoutAvailableAndClears ==
    /\ [](LoggedIn => "logout_button" \in view.widgets)
    /\ [][ lastEvent' = "logout" =>
              /\ LoggedIn
              /\ ~ LoggedIn'
              /\ NoSessionFields(session_state')
              /\ view'.page = "login" ]_vars

C6_Witness ==
    /\ LoggedIn
    /\ session_state["role"] = "veterinarian"
    /\ view.msg = DataErrorMsg
    /\ "logout_button" \in view.widgets
    /\ lastEvent = "rerun"

\* C7: the session-clearing loop is idempotent: applied to a state it has
\* already cleared it raises nothing and returns that state unchanged.
C7_ClearIdempotent ==
    LET once  == logout_clear(session_state)
        twice == logout_clear(once.ss)
    IN  /\ ~ once.raised
        /\ ~ twice.raised
        /\ NoSessionFields(once.ss)
        /\ twice.ss = once.ss
        /\ lastEvent = "logout" =>
              /\ once.ss = session_state
              /\ session_state = EmptyState

C7_Witness ==
    /\ lastEvent = "logout"
    /\ session_state = EmptyState
    /\ logout_clear(session_state).ss = EmptyState
    /\ Len(log) = 1

\* C8: a veterinarian session is shown exactly the sections overview,
\* health, vaccination and feed: never the financial section, never the
\* admin panel, neither as content nor as a tab header.
C8_VeterinarianSections ==
    (LoggedIn /\ session_state["role"] = "veterinarian") =>
        /\ Sections(view) \subseteq {"overview", "health", "vaccination", "feed"}
        /\ Labels(view) \cap {"Financial", "Admin"} = {}
        /\ (view.page = "dashboard" /\ view.msg = NoMsg) =>
              /\ Sections(view) = {"overview", "health", "vaccination", "feed"}
              /\ view.tabs = <<"Overview", "Cattle Health", "Vaccination", "Feed">>

C8_Witness ==
    /\ LoggedIn
    /\ session_state["role"] = "veterinarian"
    /\ view.page = "dashboard"
    /\ view.msg = NoMsg
    /\ view.rendered = {0, 1, 2, 3}

\* C9: what admin is shown contains what the veterinarian and what the
\* farmer are shown; the financial section is shown to farmer and admin and
\* not to the veterinarian; the admin panel is shown to admin only.
C9_AdminSuperset ==
    LET A == show_dashboard("admin")
        F == show_dashboard("farmer")
        V == show_dashboard("veterinarian")
    IN  /\ Sections(V) \subseteq Sections(A) /\ Labels(V) \subseteq Labels(A)
        /\ Sections(F) \subseteq Sections(A) /\ Labels(F) \subseteq Labels(A)
        /\ "financial" \in Sections(F) \cap Sections(A)
        /\ "financial" \notin Sections(V)
        /\ "admin-panel" \in Sections(A)
        /\ "admin-panel" \notin Sections(F) \cup Sections(V)
        /\ (LoggedIn /\ view.page = "dashboard" /\ view.msg = NoMsg) =>
              /\ Sections(view) \subseteq Sections(A)
              /\ Labels(view) \subseteq Labels(A)
              /\ ("financial" \in Sections(view)
                    <=> session_state["role"] \in {"farmer", "admin"})
              /\ ("Financial" \in Labels(view)
                    <=> session_state["role"] \in {"farmer", "admin"})
              /\ ("admin-panel" \in Sections(view)
                    <=> session_state["role"] = "admin")
              /\ ("Admin" \in Labels(view)
                    <=> session_state["role"] = "admin")

C9_Witness ==
    /\ LoggedIn
    /\ session_state["role"] = "farmer"
    /\ view.page = "dashboard"
    /\ "financial" \in Sections(view)
    /\ "admin-panel" \notin Sections(view)

\* C10: every role a session can carry has a non-empty tab list, and every
\* block the dashboard fills for that role indexes an existing tab: the
\* dashboard of a logged-in user is drawn without an index error.
C10_MatrixTotal ==
    /\ \A u \in DOMAIN auth :
        LET role == auth[u].role
            d    == show_dashboard(role)
            b    == tab_blocks(role, d.tabs)
        IN  /\ role \in {"admin", "farmer", "veterinarian"}
            /\ Len(d.tabs) > 0
            /\ d.rendered # {}
            /\ ~ d.raised
            /\ \A j \in DOMAIN b : b[j] \in 0..5 /\ b[j] < Len(d.tabs)
    /\ LoggedIn =>
        /\ session_state["role"] \in {auth[u].role : u \in DOMAIN auth}
        /\ (view.page = "dashboard" /\ view.msg = NoMsg) =>
              /\ view.rendered # {}
              /\ \A i \in view.rendered : i \in 0..5 /\ i + 1 \in DOMAIN view.tabs
              /\ "logout_button" \in view.widgets

C10_Witness ==
    /\ LoggedIn
    /\ session_state["role"] = "admin"
    /\ view.page = "dashboard"
    /\ 5 \in view.rendered
    /\ Len(view.tabs) = 6

\* C11: LoggedOut is reachable again and usable: a successful login, also
\* one that follows an earlier login and its logout, starts from a state with
\* no session field set and yields a session whose username, role and farm
\* name are those of the principal who logged in, and nothing else.
C11_ReloginCarriesNothingOver ==
    /\ \A i \in DOMAIN log : \A P \in Principals :
        ( /\ log[i].username = P[1]
          /\ "logged_in" \in DOMAIN log[i].after ) =>
            /\ NoSessionFields(log[i].before)
            /\ log[i].after = [logged_in |-> TRUE,
                               username  |-> P[1],
                               role      |-> P[3],
                               farm_name |-> auth[P[1]].farm_name]
    /\ (lastEvent = "login" /\ LoggedIn) =>
            session_state = log[Len(log)].after

C11_Witness ==
    /\ lastEvent = "login"
    /\ Len(log) = MaxLog
    /\ log[Len(log) - 1].username = "admin"
    /\ "logged_in" \in DOMAIN log[Len(log) - 1].after
    /\ log[Len(log)].username = "vet"
    /\ log[Len(log)].before = EmptyState
    /\ session_state = [logged_in |-> TRUE, username |-> "vet",
                        role |-> "veterinarian", farm_name |-> "Animal Care Clinic"]

\* C12: in every reachable state, if logged_in is true then username, role
\* and farm_name are set, username is a key of the registry and role and
\* farm_name are the registry's for that username; otherwise none of
\* username, role, farm_name is set.
C12_SessionConsistent ==
    IF LoggedIn
    THEN /\ {"username", "role", "farm_name"} \subseteq DOMAIN session_state
         /\ session_state["username"] \in DOMAIN auth
         /\ session_state["role"] = auth[session_state["username"]].role
         /\ session_state["farm_name"] = auth[session_state["username"]].farm_name
    ELSE DOMAIN session_state \cap {"username", "role", "farm_name"} = {}

C12_Witness ==
    /\ LoggedIn
    /\ session_state["username"] = "farmer"
    /\ session_state["farm_name"] = "Green Valley Farm"
    /\ lastEvent = "login"
    /\ Len(log) = MaxLog
    /\ log[Len(log) - 1].msg = InvalidMsg

\* a script run that started in state ss and drew v: dashboard tabs,
\* sections and the logout button only if ss is LoggedIn, the login form
\* only if ss is LoggedOut, never both
RunGated(v, ss) ==
    LET in   == "logged_in" \in DOMAIN ss /\ ss["logged_in"] = TRUE
        dash == \/ v.rendered # {}
                \/ v.tabs # <<>>
                \/ "logout_button" \in v.widgets
        form == \/ "login_button" \in v.widgets
                \/ "demo_button" \in v.widgets
    IN  /\ dash => in
        /\ form => ~ in
        /\ ~ (dash /\ form)

\* C13: no gated view without a session: every run of main, the one cut
\* short by st.rerun() included, draws the dashboard sections and the logout
\* button only in LoggedIn and the login form only in LoggedOut, and never
\* both in one run.
C13_ViewsGatedBySession ==
    /\ RunGated(view, session_state)
    /\ \A i \in DOMAIN prior : RunGated(prior[i].view, prior[i].ss)
    /\ LoggedIn => view.page = "dashboard"
    /\ ~ LoggedIn => view.page = "login"

C13_Witness ==
    /\ lastEvent = "logout"
    /\ Len(prior) = 1
    /\ prior[1].view.rendered = {0, 1, 2, 3, 4, 5}
    /\ "logout_button" \in prior[1].view.widgets
    /\ prior[1].ss["role"] = "admin"
    /\ view.page = "login"
    /\ view.widgets = {"login_button", "demo_button"}

====
